---------------------------- MODULE Spec2Model ----------------------------
(***************************************************************************)
(* A model of the Wordle leaderboard bot (src/main.go).                    *)
(*                                                                         *)
(* Strings are sequences of one-character strings, so that the regular     *)
(* expressions, strings.Split, strings.Trim and strconv.Atoi are computed  *)
(* character by character as the Go code computes them.  The leaderboard   *)
(* table is a function from the usernames that have a row to that row.     *)
(***************************************************************************)
EXTENDS Integers, Sequences, FiniteSets, TLC

(***************************************************************************)
(* Bounds of the model.                                                    *)
(***************************************************************************)
\* result lines in one message body (after the header line)
MaxLines == 2
\* results messages processed in one behaviour
MaxRuns == 2
\* storage statements that fail in one behaviour
MaxFaults == 1

(***************************************************************************)
(* Characters and strings.                                                 *)
(***************************************************************************)
Digits == {"0", "1", "2", "3", "4", "5", "6", "7", "8", "9"}

IsDigit(c) == c \in Digits

\* the class \s of Go's regexp: [\t\n\f\r ]
IsSpace(c) == c \in {" ", "\t", "\n", "\f", "\r"}

DigitVal(c) ==
    CASE c = "0" -> 0 [] c = "1" -> 1 [] c = "2" -> 2 [] c = "3" -> 3
      [] c = "4" -> 4 [] c = "5" -> 5 [] c = "6" -> 6 [] c = "7" -> 7
      [] c = "8" -> 8 [] c = "9" -> 9

\* strings.ToLower on the letters the model's messages use
LowerChar(c) ==
    CASE c = "R" -> "r" [] c = "E" -> "e" [] c = "S" -> "s" [] c = "U" -> "u"
      [] c = "L" -> "l" [] c = "T" -> "t" [] c = "X" -> "x" [] c = "A" -> "a"
      [] c = "B" -> "b" [] c = "D" -> "d" [] c = "O" -> "o"
      [] OTHER -> c

ToLower(s) == [i \in 1..Len(s) |-> LowerChar(s[i])]

HasPrefix(s, prefix) ==
    /\ Len(s) >= Len(prefix)
    /\ SubSeq(s, 1, Len(prefix)) = prefix

Contains(s, substr) ==
    \E i \in 1..(Len(s) - Len(substr) + 1) :
        SubSeq(s, i, i + Len(substr) - 1) = substr

\* strings.Split(s, sep) for a one-character separator
RECURSIVE Split(_, _)
Split(s, sep) ==
    IF \E i \in 1..Len(s) : s[i] = sep
    THEN LET i == CHOOSE k \in 1..Len(s) :
                    s[k] = sep /\ \A j \in 1..(k - 1) : s[j] # sep
         IN  <<SubSeq(s, 1, i - 1)>> \o Split(SubSeq(s, i + 1, Len(s)), sep)
    ELSE <<s>>

\* strconv.Atoi on a non-empty digit string (the model's digit groups are far
\* below the 19 digits at which Atoi reports a range error)
RECURSIVE Atoi(_)
Atoi(s) ==
    IF s = <<>> THEN 0
    ELSE 10 * Atoi(SubSeq(s, 1, Len(s) - 1)) + DigitVal(s[Len(s)])

(***************************************************************************)
(* scoreRegex = (\d+)/6|X/6 and userRegex = @\S+                           *)
(***************************************************************************)
\* the last index of the run of digits that starts at i
DigitRunEnd(line, i) ==
    CHOOSE j \in i..Len(line) :
        /\ \A k \in i..j : IsDigit(line[k])
        /\ (j = Len(line) \/ ~IsDigit(line[j + 1]))

\* the match of scoreRegex that starts at index i, <<>> when there is none
ScoreMatchAt(line, i) ==
    IF IsDigit(line[i])
    THEN LET j == DigitRunEnd(line, i)
         IN  IF j + 2 <= Len(line) /\ line[j + 1] = "/" /\ line[j + 2] = "6"
             THEN SubSeq(line, i, j + 2)
             ELSE <<>>
    ELSE IF /\ line[i] = "X"
            /\ i + 2 <= Len(line)
            /\ line[i + 1] = "/"
            /\ line[i + 2] = "6"
         THEN SubSeq(line, i, i + 2)
         ELSE <<>>

\* scoreRegex.FindString(line): the leftmost match, "" when there is none
FindScore(line) ==
    IF \E i \in 1..Len(line) : ScoreMatchAt(line, i) # <<>>
    THEN LET i == CHOOSE k \in 1..Len(line) :
                    /\ ScoreMatchAt(line, k) # <<>>
                    /\ \A j \in 1..(k - 1) : ScoreMatchAt(line, j) = <<>>
         IN  ScoreMatchAt(line, i)
    ELSE <<>>

\* the last index of the run of non-space characters that starts at i
NonSpaceRunEnd(line, i) ==
    CHOOSE j \in i..Len(line) :
        /\ \A k \in i..j : ~IsSpace(line[k])
        /\ (j = Len(line) \/ IsSpace(line[j + 1]))

\* userRegex matches at i: an "@" followed by at least one non-space character
MentionAt(line, i) ==
    /\ line[i] = "@"
    /\ i + 1 <= Len(line)
    /\ ~IsSpace(line[i + 1])

\* userRegex.FindAllString(line, -1) from index i on: the successive
\* non-overlapping leftmost matches
RECURSIVE FindMentionsFrom(_, _)
FindMentionsFrom(line, i) ==
    IF \E k \in i..Len(line) : MentionAt(line, k)
    THEN LET k == CHOOSE n \in i..Len(line) :
                    /\ MentionAt(line, n)
                    /\ \A j \in i..(n - 1) : ~MentionAt(line, j)
             e == NonSpaceRunEnd(line, k + 1)
         IN  <<SubSeq(line, k, e)>> \o FindMentionsFrom(line, e + 1)
    ELSE <<>>

FindMentions(line) == FindMentionsFrom(line, 1)

(***************************************************************************)
(* cleanUsername                                                           *)
(***************************************************************************)
\* s without its leading and trailing characters that satisfy Cut
RECURSIVE TrimLeft(_, _)
TrimLeft(s, cut) ==
    IF s # <<>> /\ Head(s) \in cut THEN TrimLeft(Tail(s), cut) ELSE s

RECURSIVE TrimRight(_, _)
TrimRight(s, cut) ==
    IF s # <<>> /\ s[Len(s)] \in cut
    THEN TrimRight(SubSeq(s, 1, Len(s) - 1), cut)
    ELSE s

Trim(s, cut) == TrimRight(TrimLeft(s, cut), cut)

TrimSpace(s) == Trim(s, {" ", "\t", "\n", "\f", "\r"})

cleanUsername(username) == Trim(TrimSpace(username), {"@", "<", ">"})

(***************************************************************************)
(* processWordleResultsMessage, lines 116-145: the daily results of a      *)
(* message.  A map is a function from its keys.                            *)
(***************************************************************************)
EmptyMap == [u \in {} |-> 0]

MapSet(m, k, v) == [u \in (DOMAIN m) \cup {k} |-> IF u = k THEN v ELSE m[u]]

\* the points of an "X/6" line
XScore == 7

\* lines 130-136
ScoreOf(scoreMatch) ==
    IF HasPrefix(scoreMatch, <<"X">>)
    THEN XScore
    ELSE Atoi(Split(scoreMatch, "/")[1])

\* AssignUsers with a slip: a username that has a score keeps it
RECURSIVE AssignUsersKeepFirst(_, _, _)
AssignUsersKeepFirst(daily, usernames, score) ==
    IF usernames = <<>> THEN daily
    ELSE LET user == cleanUsername(Head(usernames))
         IN  AssignUsersKeepFirst(IF user \in DOMAIN daily THEN daily
                                  ELSE MapSet(daily, user, score),
                                  Tail(usernames), score)

\* lines 140-143: every username of the line gets the line's score
RECURSIVE AssignUsers(_, _, _)
AssignUsers(daily, usernames, score) ==
    IF usernames = <<>> THEN daily
    ELSE AssignUsers(MapSet(daily, cleanUsername(Head(usernames)), score),
                     Tail(usernames), score)

\* ParseLine with a slip: a line without a score token gives its usernames
\* the score 0
ParseLineNoToken(daily, line) ==
    LET scoreMatch == FindScore(line)
    IN  AssignUsers(daily, FindMentions(line),
                    IF scoreMatch # <<>> THEN ScoreOf(scoreMatch) ELSE 0)

\* lines 128-144: one iteration of the loop over the lines
ParseLine(daily, line) ==
    LET scoreMatch == FindScore(line)
    IN  IF scoreMatch # <<>>
        THEN AssignUsers(daily, FindMentions(line), ScoreOf(scoreMatch))
        ELSE daily

\* lines 126-145
RECURSIVE ParseLines(_, _)
ParseLines(daily, lines) ==
    IF lines = <<>> THEN daily
    ELSE ParseLines(ParseLine(daily, Head(lines)), Tail(lines))

\* lines 116-145
ExtractDaily(message) == ParseLines(EmptyMap, Split(message, "\n"))

(***************************************************************************)
(* The leaderboard table and updateCumulativeScore's arithmetic.           *)
(***************************************************************************)
\* the username compared at line 194
Excluded ==
    <<"D", "u", "m", "b", " ", "A", "s", "s", " ", "N", "i", "g", "g", "a">>

\* the points of an absence, line 196
AbsencePenalty == 7

\* InsertedRow with a slip: the first day is not counted
InsertedRowNoDay(score, incrementDays) ==
    [score |-> score, days_played |-> 0]

\* lines 208-212: the row INSERTed for a username that has none
InsertedRow(score, incrementDays) ==
    [score |-> score, days_played |-> IF incrementDays THEN 1 ELSE 0]

\* UpdatedRow with a slip: the day of a scored day is not counted
UpdatedRowNoDay(currentScore, daysPlayed, score, incrementDays) ==
    [score |-> currentScore + score, days_played |-> daysPlayed]

\* UpdatedRow with a slip: an absence counts as a day played
UpdatedRowCountsDay(currentScore, daysPlayed, score, incrementDays) ==
    [score |-> currentScore + score, days_played |-> daysPlayed + 1]

\* UpdatedRow with a slip: the score is subtracted
UpdatedRowSubtracts(currentScore, daysPlayed, score, incrementDays) ==
    [score       |-> currentScore - score,
     days_played |-> IF incrementDays THEN daysPlayed + 1 ELSE daysPlayed]

\* UpdatedRow with a slip: the row is overwritten with the day's values
UpdatedRowOverwrites(currentScore, daysPlayed, score, incrementDays) ==
    [score       |-> score,
     days_played |-> IF incrementDays THEN 1 ELSE daysPlayed]

\* lines 218-223: the row written by the UPDATE
UpdatedRow(currentScore, daysPlayed, score, incrementDays) ==
    [score       |-> currentScore + score,
     days_played |-> IF incrementDays THEN daysPlayed + 1 ELSE daysPlayed]

\* Penalised with a slip: nobody is excluded
PenalisedAnyone(known, user) == known[user]

\* line 194: the users of dbUsers that get the absence penalty
Penalised(known, user) == known[user] /\ user # Excluded

(***************************************************************************)
(* sendLeaderboard: the ORDER BY of line 235 and the text of lines 242-278 *)
(***************************************************************************)
\* the byte of a character (SQLite's BINARY collation compares bytes)
Code(c) ==
    CASE c = " " -> 32 [] c = "<" -> 60 [] c = ">" -> 62 [] c = "@" -> 64
      [] c = "A" -> 65 [] c = "D" -> 68 [] c = "N" -> 78
      [] c = "a" -> 97 [] c = "b" -> 98 [] c = "c" -> 99 [] c = "d" -> 100
      [] c = "e" -> 101 [] c = "g" -> 103 [] c = "i" -> 105
      [] c = "m" -> 109 [] c = "s" -> 115 [] c = "u" -> 117

\* s sorts strictly before t
RECURSIVE StrLess(_, _)
StrLess(s, t) ==
    IF t = <<>> THEN FALSE
    ELSE IF s = <<>> THEN TRUE
    ELSE IF Code(Head(s)) # Code(Head(t)) THEN Code(Head(s)) < Code(Head(t))
    ELSE StrLess(Tail(s), Tail(t))

\* RowBefore with a slip: of two rows with equal averages the one with
\* fewer days comes first
RowBeforeFewerDays(table, u, v) ==
    LET a == table[u]
        b == table[v]
    IN  IF a.score * b.days_played # b.score * a.days_played
        THEN a.score * b.days_played < b.score * a.days_played
        ELSE IF a.days_played # b.days_played
             THEN a.days_played < b.days_played
             ELSE StrLess(u, v)

\* ORDER BY (score * 1.0 / days_played) ASC, days_played DESC, username ASC
\* for rows with days_played > 0; the quotients of the model's small
\* integers are equal as doubles exactly when they are equal as fractions
RowBefore(table, u, v) ==
    LET a == table[u]
        b == table[v]
    IN  IF a.score * b.days_played # b.score * a.days_played
        THEN a.score * b.days_played < b.score * a.days_played
        ELSE IF a.days_played # b.days_played
             THEN a.days_played > b.days_played
             ELSE StrLess(u, v)

\* Ranked with a slip: WHERE days_played > 1
RankedPlayedTwice(table) == {u \in DOMAIN table : table[u].days_played > 1}

\* WHERE days_played > 0
Ranked(table) == {u \in DOMAIN table : table[u].days_played > 0}

\* the usernames of the set us in the order of the query
RECURSIVE OrderRows(_, _)
OrderRows(table, us) ==
    IF us = {} THEN <<>>
    ELSE LET first == CHOOSE u \in us :
                        \A v \in us \ {u} : RowBefore(table, u, v)
         IN  <<first>> \o OrderRows(table, us \ {first})

\* lines 259-268
Medal(rank) ==
    CASE rank = 1 -> <<"gold">> [] rank = 2 -> <<"silver">>
      [] rank = 3 -> <<"bronze">> [] OTHER -> <<rank, ".">>

\* "%.2f" of float64(totalScore) / float64(daysPlayed), in hundredths; with
\* fewer than 8 days played no quotient lies halfway between two hundredths
Hundredths(totalScore, daysPlayed) ==
    (200 * totalScore + daysPlayed) \div (2 * daysPlayed)

\* lines 242-278: the lines of the text after the header, the rows whose
\* Scan failed being skipped (line 251); no line stands for "No results
\* available yet!"
LeaderboardText(table, lost) ==
    LET order == OrderRows(table, Ranked(table) \ lost)
    IN  [kind |-> "leaderboard",
         rows |-> [i \in 1..Len(order) |->
                     [medal    |-> Medal(i),
                      username |-> order[i],
                      average  |-> Hundredths(table[order[i]].score,
                                              table[order[i]].days_played)]]]

\* line 154
AckText == [kind |-> "ack"]

(***************************************************************************)
(* The messages the handler receives.                                      *)
(***************************************************************************)
\* s.State.User.ID
BotID == "bot"

Bot == [id |-> BotID, username |-> "Leaderboard", discriminator |-> "0001"]

Wordle == [id |-> "wordle", username |-> "Wordle", discriminator |-> "2092"]

Impostor == [id |-> "impostor", username |-> "Wordle", discriminator |-> "0007"]

Human == [id |-> "human", username |-> "andre", discriminator |-> "0042"]

Authors == {Bot, Wordle, Impostor, Human}

UserA == <<"a">>

UserB == <<"b">>

\* "Results"
ResultsHeader == <<"R", "e", "s", "u", "l", "t", "s">>

\* "1/6 @a", "X/6 <@b>" and "3/6 @a @b"
ScoreLines ==
    {<<"1", "/", "6", " ", "@", "a">>,
     <<"X", "/", "6", " ", "<", "@", "b", ">">>,
     <<"3", "/", "6", " ", "@", "a", " ", "@", "b">>}

\* the sequences of at most n elements of S
RECURSIVE SeqsUpTo(_, _)
SeqsUpTo(S, n) ==
    IF n = 0 THEN {<<>>}
    ELSE LET shorter == SeqsUpTo(S, n - 1)
         IN  shorter \cup {Append(q, x) : q \in shorter, x \in S}

\* the lines joined by newlines
RECURSIVE JoinLines(_)
JoinLines(lines) ==
    IF Len(lines) = 1 THEN lines[1]
    ELSE lines[1] \o <<"\n">> \o JoinLines(Tail(lines))

\* "Results" followed by at most MaxLines result lines
ResultsContents ==
    {JoinLines(<<ResultsHeader>> \o body) :
        body \in SeqsUpTo(ScoreLines, MaxLines)}

\* "Results\n1/6 @a", "hi" and "!Leaderboard"
OtherContents ==
    {JoinLines(<<ResultsHeader, <<"1", "/", "6", " ", "@", "a">>>>),
     <<"h", "i">>,
     <<"!", "L", "e", "a", "d", "e", "r", "b", "o", "a", "r", "d">>}

\* what Wordle#2092 posts, and what the other authors post
Messages ==
    [author : {Wordle}, content : ResultsContents \cup OtherContents]
      \cup [author : Authors \ {Wordle}, content : OtherContents]

NoMessage == [author |-> [id |-> "", username |-> "", discriminator |-> ""],
              content |-> <<>>]

\* line 84
FromSelf(m) == m.author.id = BotID

\* line 89
IsCommand(m) ==
    HasPrefix(ToLower(m.content),
              <<"!", "l", "e", "a", "d", "e", "r", "b", "o", "a", "r", "d">>)

\* IsResults with a slip: the author is not looked at
IsResultsAnyAuthor(m) ==
    Contains(ToLower(m.content), <<"r", "e", "s", "u", "l", "t", "s">>)

\* lines 97-99
IsResults(m) ==
    /\ m.author.username = "Wordle"
    /\ m.author.discriminator = "2092"
    /\ Contains(ToLower(m.content), <<"r", "e", "s", "u", "l", "t", "s">>)

(***************************************************************************)
(* The state.  discordgo runs each call of the handler in a goroutine of   *)
(* its own: Procs are the calls that can be in progress at once.           *)
(***************************************************************************)
Procs == {1, 2}

VARIABLES
    ledger,      \* the table leaderboard: username -> [score, days_played]
    pc,          \* where each call of onMessageCreate stands
    msg,         \* m: the message the call handles
    dailyUsers,  \* processWordleResultsMessage's map username -> score
    dbUsers,     \* updateScoresBasedOnResults's map username -> bool
    dailyLeft,   \* the keys the loop of line 187 has yet to visit
    penLeft,     \* the keys the loop of line 193 has yet to visit
    cur,         \* the arguments and locals of updateCumulativeScore
    sent,        \* the texts the call passed to ChannelMessageSend, in order
    runs,        \* results messages taken so far
    faults,      \* storage statements failed so far
    ledger0,     \* history: the table when the run's first query was made
    errs,        \* history: the storage errors of the run
    writes,      \* history: the INSERTs and UPDATEs of the run, by username
    last         \* history: the run that ended last and the daily results
                 \* of all that ended, where it is kept

vars == <<ledger, pc, msg, dailyUsers, dbUsers, dailyLeft, penLeft, cur, sent,
          runs, faults, ledger0, errs, writes, last>>

NoCur == [username |-> <<>>, score |-> 0, incrementDays |-> FALSE,
          norows |-> FALSE, currentScore |-> 0, daysPlayed |-> 0,
          ret |-> "none"]

NoErrs == [query |-> FALSE, scan |-> {}, fetch |-> {}, write |-> {}]

\* the rows a table can hold when the bot starts: leaderboard.db outlives
\* the process, and line 69 keeps a table that exists
InitRows == {[score |-> 5, days_played |-> 2]}

InitUsers == {UserA, UserB, Excluded}

InitLedgers ==
    UNION {[us -> InitRows] : us \in SUBSET InitUsers}

\* no history of the runs that ended is kept
Untracked == [kept |-> FALSE, ran |-> FALSE, ledger0 |-> EmptyMap,
              daily |-> EmptyMap, clean |-> FALSE, all |-> <<>>]

\* the history is kept, and no run has ended
NoLast == [kept |-> TRUE, ran |-> FALSE, ledger0 |-> EmptyMap,
           daily |-> EmptyMap, clean |-> FALSE, all |-> <<>>]

InitLocals ==
    /\ pc = [p \in Procs |-> "idle"]
    /\ msg = [p \in Procs |-> NoMessage]
    /\ dailyUsers = [p \in Procs |-> EmptyMap]
    /\ dbUsers = [p \in Procs |-> EmptyMap]
    /\ dailyLeft = [p \in Procs |-> {}]
    /\ penLeft = [p \in Procs |-> {}]
    /\ cur = [p \in Procs |-> NoCur]
    /\ sent = [p \in Procs |-> <<>>]
    /\ runs = 0
    /\ ledger0 = [p \in Procs |-> EmptyMap]
    /\ errs = [p \in Procs |-> NoErrs]
    /\ writes = [p \in Procs |-> EmptyMap]

Init ==
    /\ ledger \in InitLedgers
    /\ InitLocals
    /\ faults = 0
    /\ last = Untracked

(***************************************************************************)
(* onMessageCreate, one action per database statement or reply.            *)
(***************************************************************************)
\* whether the storage may fail the statement at hand
MayFail == IF faults < MaxFaults THEN BOOLEAN ELSE {FALSE}

\* the failed statements after one that failed or not
Count(failed) == IF failed THEN faults + 1 ELSE faults

\* the call comes to its return: its locals are dead
Return(p) ==
    /\ pc' = [pc EXCEPT ![p] = "done"]
    /\ msg' = [msg EXCEPT ![p] = NoMessage]
    /\ dailyUsers' = [dailyUsers EXCEPT ![p] = EmptyMap]
    /\ dbUsers' = [dbUsers EXCEPT ![p] = EmptyMap]
    /\ dailyLeft' = [dailyLeft EXCEPT ![p] = {}]
    /\ penLeft' = [penLeft EXCEPT ![p] = {}]
    /\ cur' = [cur EXCEPT ![p] = NoCur]
    /\ ledger0' = [ledger0 EXCEPT ![p] = EmptyMap]
    /\ errs' = [errs EXCEPT ![p] = NoErrs]
    /\ writes' = [writes EXCEPT ![p] = EmptyMap]

\* lines 97-105: after the command check, a results message of Wordle#2092
\* is processed and any other message is ignored
Gate(p, m) ==
    IF IsResults(m)
    THEN /\ pc' = [pc EXCEPT ![p] = "parse"]
         /\ msg' = [msg EXCEPT ![p] = m]
         /\ UNCHANGED <<dailyUsers, dbUsers, dailyLeft, penLeft, cur,
                        ledger0, writes, errs>>
    ELSE Return(p)

\* SendLeaderboard with a slip: the text is that of the table as the run
\* found it
SendLeaderboardStale(p) ==
    \/ /\ faults < MaxFaults
       /\ faults' = faults + 1
       /\ sent' = sent
    \/ \E lost \in SUBSET Ranked(ledger0[p]) :
          /\ faults + Cardinality(lost) <= MaxFaults
          /\ faults' = faults + Cardinality(lost)
          /\ sent' = [sent EXCEPT
                        ![p] = Append(@, LeaderboardText(ledger0[p], lost))]

\* lines 233-284: the query fails and nothing is sent, or the text of the
\* rows whose Scan succeeds is sent (each failed Scan is a failed statement)
SendLeaderboard(p) ==
    \/ /\ faults < MaxFaults
       /\ faults' = faults + 1
       /\ sent' = sent
    \/ \E lost \in SUBSET Ranked(ledger) :
          /\ faults + Cardinality(lost) <= MaxFaults
          /\ faults' = faults + Cardinality(lost)
          /\ sent' = [sent EXCEPT
                        ![p] = Append(@, LeaderboardText(ledger, lost))]

\* lines 82-91: a message arrives; the bot's own are dropped
Receive(p, incoming) ==
    /\ pc[p] = "idle"
    /\ \E m \in incoming :
          /\ ~FromSelf(m)
          /\ IsResults(m) => runs < MaxRuns
          /\ sent' = [sent EXCEPT ![p] = <<>>]
          /\ IF IsCommand(m)
             THEN /\ pc' = [pc EXCEPT ![p] = "command"]
                  /\ msg' = [msg EXCEPT ![p] = m]
                  /\ UNCHANGED <<dailyUsers, dbUsers, dailyLeft, penLeft, cur,
                                 ledger0, writes, errs>>
             ELSE Gate(p, m)
          /\ runs' = IF IsResults(m) THEN runs + 1 ELSE runs
    /\ UNCHANGED <<ledger, faults, last>>

\* the handler has returned and its goroutine ends
Finish(p) ==
    /\ pc[p] = "done"
    /\ pc' = [pc EXCEPT ![p] = "idle"]
    /\ sent' = [sent EXCEPT ![p] = <<>>]
    /\ UNCHANGED <<ledger, msg, dailyUsers, dbUsers, dailyLeft, penLeft, cur,
                   runs, faults, ledger0, errs, writes, last>>

\* lines 84-86
ReceiveOwn(p, incoming) ==
    /\ pc[p] = "idle"
    /\ {m \in incoming : FromSelf(m)} # {}
    /\ UNCHANGED vars

\* lines 89-91, then the gate of lines 97-105
Command(p) ==
    /\ pc[p] = "command"
    /\ SendLeaderboard(p)
    /\ Gate(p, msg[p])
    /\ UNCHANGED <<ledger, runs, last>>

\* lines 116-148
Parse(p) ==
    /\ pc[p] = "parse"
    /\ dailyUsers' = [dailyUsers EXCEPT ![p] = ExtractDaily(msg[p].content)]
    /\ pc' = [pc EXCEPT ![p] = "readKnown"]
    /\ UNCHANGED <<ledger, msg, dbUsers, dailyLeft, penLeft, cur, sent, runs,
                   last, faults, ledger0, writes, errs>>

\* ReadKnown with a slip: a failed query leaves an empty dbUsers and the
\* function goes on
ReadKnownGoesOn(p) ==
    /\ pc[p] = "readKnown"
    /\ ledger0' = [ledger0 EXCEPT ![p] = ledger]
    /\ msg' = [msg EXCEPT ![p].content = <<>>]
    /\ \E failed \in MayFail :
          /\ faults' = Count(failed)
          /\ errs' = [errs EXCEPT ![p].query = failed]
          /\ dbUsers' = [dbUsers EXCEPT
                           ![p] = IF failed THEN EmptyMap
                                  ELSE [u \in DOMAIN ledger |-> TRUE]]
    /\ dailyLeft' = [dailyLeft EXCEPT ![p] = DOMAIN dailyUsers[p]]
    /\ pc' = [pc EXCEPT ![p] = "daily"]
    /\ UNCHANGED <<ledger, dailyUsers, penLeft, cur, sent, runs, last,
                   writes>>

\* ReadKnown with a slip: a failed query ends the handler
ReadKnownReturns(p) ==
    /\ pc[p] = "readKnown"
    /\ \/ /\ faults < MaxFaults
          /\ faults' = faults + 1
          /\ Return(p)
       \/ \E lost \in SUBSET (DOMAIN ledger) :
             /\ faults + Cardinality(lost) <= MaxFaults
             /\ faults' = faults + Cardinality(lost)
             /\ errs' = [errs EXCEPT ![p].scan = lost]
             /\ dbUsers' = [dbUsers EXCEPT
                              ![p] = [u \in (DOMAIN ledger) \ lost |-> TRUE]]
             /\ dailyLeft' = [dailyLeft EXCEPT ![p] = DOMAIN dailyUsers[p]]
             /\ pc' = [pc EXCEPT ![p] = "daily"]
             /\ ledger0' = [ledger0 EXCEPT ![p] = ledger]
             /\ msg' = [msg EXCEPT ![p].content = <<>>]
             /\ UNCHANGED <<dailyUsers, penLeft, cur, writes>>
    /\ UNCHANGED <<ledger, sent, runs, last>>

\* lines 151, 167-184: updateScoresBasedOnResults is called (the text of
\* the message is not read again); its query fails and the function
\* returns, or every row whose Scan succeeds is put into dbUsers
ReadKnown(p) ==
    /\ pc[p] = "readKnown"
    /\ ledger0' = [ledger0 EXCEPT ![p] = ledger]
    /\ msg' = [msg EXCEPT ![p].content = <<>>]
    /\ \/ /\ faults < MaxFaults
          /\ faults' = faults + 1
          /\ errs' = [errs EXCEPT ![p].query = TRUE]
          /\ pc' = [pc EXCEPT ![p] = "ack"]
          /\ UNCHANGED <<dbUsers, dailyLeft>>
       \/ \E lost \in SUBSET (DOMAIN ledger) :
             /\ faults + Cardinality(lost) <= MaxFaults
             /\ faults' = faults + Cardinality(lost)
             /\ errs' = [errs EXCEPT ![p].scan = lost]
             /\ dbUsers' = [dbUsers EXCEPT
                              ![p] = [u \in (DOMAIN ledger) \ lost |-> TRUE]]
             /\ dailyLeft' = [dailyLeft EXCEPT ![p] = DOMAIN dailyUsers[p]]
             /\ pc' = [pc EXCEPT ![p] = "daily"]
    /\ UNCHANGED <<ledger, dailyUsers, penLeft, cur, sent, runs, last,
                   writes>>

\* line 205: the SELECT of updateCumulativeScore(username, score,
\* incrementDays) called from the loop ret; on an error of the query the
\* function returns (line 228)
QueryRow(p, username, score, incrementDays, ret) ==
    \/ /\ cur' = [cur EXCEPT
                    ![p] = [username      |-> username,
                            score         |-> score,
                            incrementDays |-> incrementDays,
                            norows        |-> username \notin DOMAIN ledger,
                            currentScore  |-> IF username \in DOMAIN ledger
                                              THEN ledger[username].score
                                              ELSE 0,
                            daysPlayed    |-> IF username \in DOMAIN ledger
                                              THEN ledger[username].days_played
                                              ELSE 0,
                            ret           |-> ret]]
       /\ pc' = [pc EXCEPT ![p] = "write"]
       /\ UNCHANGED <<errs, dbUsers, faults>>
    \/ /\ faults < MaxFaults
       /\ faults' = faults + 1
       /\ errs' = [errs EXCEPT ![p].fetch = @ \cup {username}]
       /\ dbUsers' = [dbUsers EXCEPT
                        ![p] = IF ret = "daily"
                               THEN MapSet(@, username, FALSE) ELSE @]
       /\ UNCHANGED <<cur, pc>>

\* lines 187-188: the next user of the daily results, in the map's order
DailyFetch(p) ==
    /\ pc[p] = "daily"
    /\ \E user \in dailyLeft[p] :
          /\ dailyLeft' = [dailyLeft EXCEPT ![p] = @ \ {user}]
          /\ QueryRow(p, user, dailyUsers[p][user], TRUE, "daily")
    /\ UNCHANGED <<ledger, msg, dailyUsers, penLeft, sent, runs, last,
                   ledger0, writes>>

\* line 190: the first loop ends
DailyDone(p) ==
    /\ pc[p] = "daily"
    /\ dailyLeft[p] = {}
    /\ pc' = [pc EXCEPT ![p] = "penalty"]
    /\ penLeft' = [penLeft EXCEPT ![p] = DOMAIN dbUsers[p]]
    /\ UNCHANGED <<ledger, msg, dailyUsers, dbUsers, dailyLeft, cur, sent,
                   runs, last, faults, ledger0, writes, errs>>

\* lines 193-197: the next user that gets the penalty, in the map's order;
\* the users line 194 skips are passed over
PenaltyFetch(p) ==
    /\ pc[p] = "penalty"
    /\ \E user \in penLeft[p] :
          /\ Penalised(dbUsers[p], user)
          /\ penLeft' = [penLeft EXCEPT ![p] = @ \ {user}]
          /\ QueryRow(p, user, AbsencePenalty, FALSE, "penalty")
    /\ UNCHANGED <<ledger, msg, dailyUsers, dailyLeft, sent, runs, last,
                   ledger0, writes>>

\* line 198: the second loop ends, updateScoresBasedOnResults returns
PenaltyDone(p) ==
    /\ pc[p] = "penalty"
    /\ \A user \in penLeft[p] : ~Penalised(dbUsers[p], user)
    /\ pc' = [pc EXCEPT ![p] = "ack"]
    /\ UNCHANGED <<ledger, msg, dailyUsers, dbUsers, dailyLeft, penLeft, cur,
                   sent, runs, last, faults, ledger0, writes, errs>>

\* lines 212 and 223: the table after the statement of the call c, and
\* whether Exec returned an error.  username is UNIQUE, so an INSERT for a
\* username that has a row by now fails; an UPDATE that finds no row changes
\* nothing; failed says that the storage fails the statement
Exec(table, c, failed) ==
    IF failed THEN [table |-> table, err |-> TRUE]
    ELSE IF c.norows
    THEN IF c.username \in DOMAIN table
         THEN [table |-> table, err |-> TRUE]
         ELSE [table |-> MapSet(table, c.username,
                                InsertedRow(c.score, c.incrementDays)),
               err   |-> FALSE]
    ELSE IF c.username \in DOMAIN table
         THEN [table |-> MapSet(table, c.username,
                                UpdatedRow(c.currentScore, c.daysPlayed,
                                           c.score, c.incrementDays)),
               err   |-> FALSE]
         ELSE [table |-> table, err |-> FALSE]

\* the statements of a run by username, with that of the call c: how many
\* came from the loop over the daily results and how many from the loop of
\* the absence penalty
Logged(log, c) ==
    LET old == IF c.username \in DOMAIN log THEN log[c.username]
               ELSE [scored |-> 0, penalised |-> 0]
    IN  MapSet(log, c.username,
               IF c.ret = "daily"
               THEN [old EXCEPT !.scored = @ + 1]
               ELSE [old EXCEPT !.penalised = @ + 1])

\* Write with a slip: line 189 is left out
WriteNoMark(p) ==
    /\ pc[p] = "write"
    /\ \E failed \in MayFail :
          LET done == Exec(ledger, cur[p], failed)
          IN  /\ ledger' = done.table
              /\ faults' = Count(failed)
              /\ errs' = [errs EXCEPT
                            ![p].write = IF done.err
                                         THEN @ \cup {cur[p].username}
                                         ELSE @]
    /\ pc' = [pc EXCEPT ![p] = cur[p].ret]
    /\ cur' = [cur EXCEPT ![p] = NoCur]
    /\ writes' = [writes EXCEPT ![p] = Logged(@, cur[p])]
    /\ UNCHANGED <<msg, dailyUsers, dbUsers, dailyLeft, penLeft, sent, runs,
                   last, ledger0>>

\* Write with a slip: an error of Exec ends updateScoresBasedOnResults
WriteAborts(p) ==
    /\ pc[p] = "write"
    /\ \E failed \in MayFail :
          LET done == Exec(ledger, cur[p], failed)
          IN  /\ ledger' = done.table
              /\ faults' = Count(failed)
              /\ errs' = [errs EXCEPT
                            ![p].write = IF done.err
                                         THEN @ \cup {cur[p].username}
                                         ELSE @]
              /\ pc' = [pc EXCEPT
                          ![p] = IF done.err THEN "ack" ELSE cur[p].ret]
    /\ dbUsers' = [dbUsers EXCEPT
                     ![p] = IF cur[p].ret = "daily"
                            THEN MapSet(@, cur[p].username, FALSE) ELSE @]
    /\ cur' = [cur EXCEPT ![p] = NoCur]
    /\ writes' = [writes EXCEPT ![p] = Logged(@, cur[p])]
    /\ UNCHANGED <<msg, dailyUsers, dailyLeft, penLeft, sent, runs, last,
                   ledger0>>

\* lines 206-226: the INSERT or the UPDATE of updateCumulativeScore, whose
\* error is printed; then, in the first loop, line 189
Write(p) ==
    /\ pc[p] = "write"
    /\ \E failed \in MayFail :
          LET done == Exec(ledger, cur[p], failed)
          IN  /\ ledger' = done.table
              /\ faults' = Count(failed)
              /\ errs' = [errs EXCEPT
                            ![p].write = IF done.err
                                         THEN @ \cup {cur[p].username}
                                         ELSE @]
    /\ dbUsers' = [dbUsers EXCEPT
                     ![p] = IF cur[p].ret = "daily"
                            THEN MapSet(@, cur[p].username, FALSE) ELSE @]
    /\ pc' = [pc EXCEPT ![p] = cur[p].ret]
    /\ cur' = [cur EXCEPT ![p] = NoCur]
    /\ writes' = [writes EXCEPT ![p] = Logged(@, cur[p])]
    /\ UNCHANGED <<msg, dailyUsers, dailyLeft, penLeft, sent, runs, last,
                   ledger0>>

\* line 154
Ack(p) ==
    /\ pc[p] = "ack"
    /\ sent' = [sent EXCEPT ![p] = Append(@, AckText)]
    /\ pc' = [pc EXCEPT ![p] = "board"]
    /\ UNCHANGED <<ledger, msg, dailyUsers, dbUsers, dailyLeft, penLeft, cur,
                   runs, last, faults, ledger0, writes, errs>>

\* line 155, and the handler returns
Board(p) ==
    /\ pc[p] = "board"
    /\ SendLeaderboard(p)
    /\ Return(p)
    /\ last' = IF last.kept
               THEN [kept    |-> TRUE,
                     ran     |-> TRUE,
                     ledger0 |-> ledger0[p],
                     daily   |-> dailyUsers[p],
                     clean   |-> errs[p] = NoErrs,
                     all     |-> Append(last.all, dailyUsers[p])]
               ELSE last
    /\ UNCHANGED <<ledger, runs>>

\* processWordleResultsMessage, lines 114-156
Process(p) ==
    \/ Parse(p)
    \/ ReadKnown(p)
    \/ DailyFetch(p)
    \/ DailyDone(p)
    \/ PenaltyFetch(p)
    \/ PenaltyDone(p)
    \/ Write(p)
    \/ Ack(p)
    \/ Board(p)

\* one call of the handler at a time, for any message
Next ==
    \/ Receive(1, Messages)
    \/ ReceiveOwn(1, Messages)
    \/ Command(1)
    \/ Process(1)
    \/ Finish(1)

Spec == Init /\ [][Next]_vars

\* the results messages of Wordle#2092
ResultsMessages == {m \in Messages : IsResults(m) /\ ~IsCommand(m)}

\* results messages handled by calls in progress at once, the storage
\* failing no statement
InitConcurrent ==
    /\ ledger \in InitLedgers
    /\ InitLocals
    /\ faults = MaxFaults
    /\ last = Untracked

NextConcurrent ==
    \E p \in Procs :
        \/ Receive(p, ResultsMessages)
        \/ Process(p)
        \/ Finish(p)

SpecConcurrent == InitConcurrent /\ [][NextConcurrent]_vars

\* results messages handled one call at a time, the storage failing no
\* statement, with the history of the run that ended last
InitReplay ==
    /\ ledger \in InitLedgers
    /\ InitLocals
    /\ faults = MaxFaults
    /\ last = NoLast

NextReplay ==
    \/ Receive(1, ResultsMessages)
    \/ Process(1)
    \/ Finish(1)

SpecReplay == InitReplay /\ [][NextReplay]_vars

\* the extraction: results messages of Wordle#2092 over more kinds of lines
\* "1/6 @a", "3/6 @a", "X/6 <@b> @a", "@a", "2/6", "0/6 @b", "12/6 @a",
\* "4/6 5/6 @b" and "@b 2/6"
ExtractLines ==
    {<<"1", "/", "6", " ", "@", "a">>,
     <<"3", "/", "6", " ", "@", "a">>,
     <<"X", "/", "6", " ", "<", "@", "b", ">", " ", "@", "a">>,
     <<"@", "a">>,
     <<"2", "/", "6">>,
     <<"0", "/", "6", " ", "@", "b">>,
     <<"1", "2", "/", "6", " ", "@", "a">>,
     <<"4", "/", "6", " ", "5", "/", "6", " ", "@", "b">>,
     <<"@", "b", " ", "2", "/", "6">>}

ExtractMessages ==
    [author  : {Wordle},
     content : {JoinLines(<<ResultsHeader>> \o body) :
                   body \in SeqsUpTo(ExtractLines, MaxLines)}]

InitExtract ==
    /\ ledger = EmptyMap
    /\ InitLocals
    /\ faults = 0
    /\ last = Untracked

NextExtract ==
    \/ Receive(1, ExtractMessages)
    \/ Parse(1)

SpecExtract == InitExtract /\ [][NextExtract]_vars

\* the rendering: "!leaderboard" requests over tables that hold rows with
\* equal averages, rows equal in average and days, and rows with no day
\* played (days_played defaults to 0, line 73)
UserAB == <<"a", "b">>

RenderUsers == {UserA, UserB, UserAB, Excluded}

RenderRows ==
    {[score |-> 2, days_played |-> 1], [score |-> 4, days_played |-> 2],
     [score |-> 5, days_played |-> 2], [score |-> 7, days_played |-> 0]}

RenderLedgers ==
    UNION {[us -> RenderRows] : us \in SUBSET RenderUsers}

\* "!Leaderboard" from any author but the bot
CommandMessages == {m \in Messages : IsCommand(m) /\ ~IsResults(m)}

InitRender ==
    /\ ledger \in RenderLedgers
    /\ InitLocals
    /\ faults = 0
    /\ last = Untracked

NextRender ==
    \/ Receive(1, CommandMessages)
    \/ Command(1)
    \/ Finish(1)

SpecRender == InitRender /\ [][NextRender]_vars

\* results messages handled one call at a time by a bot that starts without
\* a table (line 69 creates it empty), the storage failing statements or not
InitFromEmpty ==
    /\ ledger = EmptyMap
    /\ InitLocals
    /\ faults = 0
    /\ last = Untracked

SpecFromEmpty == InitFromEmpty /\ [][NextReplay]_vars

\* the same, the storage failing no statement, with the history of the runs
InitTally ==
    /\ ledger = EmptyMap
    /\ InitLocals
    /\ faults = MaxFaults
    /\ last = NoLast

SpecTally == InitTally /\ [][NextReplay]_vars

(***************************************************************************)
(* The properties.  A run is one call of updateScoresBasedOnResults; it    *)
(* has ended when the call stands before one of its two replies.           *)
(***************************************************************************)
RunEnded(p) == pc[p] \in {"ack", "board"}

\* the run has made its first query and has not returned to the idle state
InRun(p) == pc[p] \in {"daily", "write", "penalty", "ack", "board"}

\* no statement of the run failed
Clean(p) == errs[p] = NoErrs

\* the row of user after a run on its own, no statement failing, that starts
\* on table with the daily results daily
RowAfterRun(table, daily, user) ==
    IF user \in DOMAIN daily
    THEN IF user \in DOMAIN table
         THEN [score       |-> table[user].score + daily[user],
               days_played |-> table[user].days_played + 1]
         ELSE [score |-> daily[user], days_played |-> 1]
    ELSE IF user # Excluded
         THEN [score       |-> table[user].score + 7,
               days_played |-> table[user].days_played]
         ELSE table[user]

\* the table after such a run
RunAlone(table, daily) ==
    [user \in (DOMAIN table) \cup (DOMAIN daily) |->
        RowAfterRun(table, daily, user)]

\* C1: in a run in which no statement fails, with one call at a time, every
\* player that was in the table and is in the daily results with score s
\* ends with its score raised by s and its days played raised by 1
C1_MatchedUpdate ==
    (RunEnded(1) /\ Clean(1)) =>
        \A u \in (DOMAIN ledger0[1]) \cap (DOMAIN dailyUsers[1]) :
            /\ u \in DOMAIN ledger
            /\ ledger[u].score = ledger0[1][u].score + dailyUsers[1][u]
            /\ ledger[u].days_played = ledger0[1][u].days_played + 1

C1_Witness ==
    /\ RunEnded(1)
    /\ Clean(1)
    /\ \E u \in (DOMAIN ledger0[1]) \cap (DOMAIN dailyUsers[1]) :
          /\ dailyUsers[1][u] = 3
          /\ ledger[u] = [score |-> 8, days_played |-> 3]

\* C2: in such a run every player that was in the table, is not in the
\* daily results and is not the excluded username ends with its score
\* raised by exactly 7 and its days played unchanged
C2_AbsencePenalty ==
    (RunEnded(1) /\ Clean(1)) =>
        \A u \in (DOMAIN ledger0[1]) \ (DOMAIN dailyUsers[1]) :
            u # Excluded =>
                /\ u \in DOMAIN ledger
                /\ ledger[u].score = ledger0[1][u].score + 7
                /\ ledger[u].days_played = ledger0[1][u].days_played

C2_Witness ==
    /\ RunEnded(1)
    /\ Clean(1)
    /\ UserB \in (DOMAIN ledger0[1]) \ (DOMAIN dailyUsers[1])
    /\ UserA \in DOMAIN dailyUsers[1]
    /\ ledger[UserB] = [score |-> 12, days_played |-> 2]

\* C3: after a run in which no statement fails, with one call at a time,
\* every player of the daily results with score s that was not in the table
\* has one row, (s, 1): it gets no absence penalty in that run
C3_FreshInsert ==
    (RunEnded(1) /\ Clean(1)) =>
        \A u \in (DOMAIN dailyUsers[1]) \ (DOMAIN ledger0[1]) :
            /\ u \in DOMAIN ledger
            /\ ledger[u] = [score |-> dailyUsers[1][u], days_played |-> 1]

C3_Witness ==
    /\ RunEnded(1)
    /\ Clean(1)
    /\ UserB \in DOMAIN ledger0[1]
    /\ UserA \notin DOMAIN ledger0[1]
    /\ UserA \in DOMAIN dailyUsers[1]
    /\ ledger[UserA] = [score |-> 1, days_played |-> 1]

\* C4: in every run, whatever fails, the excluded username is not in the
\* daily results and its row is the one it had when the run began
C4_ExcludedNeverPenalised ==
    InRun(1) =>
        /\ Excluded \notin DOMAIN dailyUsers[1]
        /\ Excluded \in DOMAIN ledger0[1] =>
              /\ Excluded \in DOMAIN ledger
              /\ ledger[Excluded] = ledger0[1][Excluded]

\* the excluded username was read as a known player absent from the daily
\* results, and another absent player got the penalty
C4_Witness ==
    /\ RunEnded(1)
    /\ Excluded \in DOMAIN dbUsers[1]
    /\ dbUsers[1][Excluded]
    /\ UserB \in DOMAIN ledger0[1]
    /\ UserB \in DOMAIN ledger
    /\ ledger[UserB].score = ledger0[1][UserB].score + 7
    /\ ledger[Excluded] = ledger0[1][Excluded]

\* C5: when two runs are in progress at once and both have ended, the table
\* is the one that the two runs, one after the other in some order, make of
\* the table that one of them began on
C5_Serialized ==
    (RunEnded(1) /\ RunEnded(2)) =>
        \E start \in {ledger0[1], ledger0[2]} :
            \/ ledger = RunAlone(RunAlone(start, dailyUsers[1]), dailyUsers[2])
            \/ ledger = RunAlone(RunAlone(start, dailyUsers[2]), dailyUsers[1])

\* C6: with one call at a time, whatever fails, no step removes a row or
\* lowers a score or a number of days played
C6_Monotonic ==
    [][\A u \in DOMAIN ledger :
          /\ u \in DOMAIN ledger'
          /\ ledger'[u].score >= ledger[u].score
          /\ ledger'[u].days_played >= ledger[u].days_played]_vars

\* a run has raised the score and the days of one row and the score of
\* another, after a statement failed
C6_Witness ==
    /\ RunEnded(1)
    /\ ~Clean(1)
    /\ \E u \in DOMAIN ledger0[1] :
          /\ ledger[u].score > ledger0[1][u].score
          /\ ledger[u].days_played > ledger0[1][u].days_played
    /\ \E u \in DOMAIN ledger0[1] :
          /\ ledger[u].score > ledger0[1][u].score
          /\ ledger[u].days_played = ledger0[1][u].days_played

\* the run in progress has the daily results of the run that ended before
\* it, which are not empty; no statement failed in either
Replayed ==
    /\ RunEnded(1)
    /\ Clean(1)
    /\ last.ran
    /\ last.clean
    /\ last.daily = dailyUsers[1]
    /\ DOMAIN dailyUsers[1] # {}

\* C7: when the same daily results are applied twice in succession, every
\* player in them ends with its score added twice and two more days played
\* (2 s and 2 days for a new player), every other player known at the start
\* but the excluded one ends with 14 more points, and the second run changes
\* the table
C7_NotIdempotent ==
    Replayed =>
        /\ \A u \in DOMAIN dailyUsers[1] :
              /\ u \in DOMAIN ledger
              /\ ledger[u] =
                    IF u \in DOMAIN last.ledger0
                    THEN [score       |-> last.ledger0[u].score
                                            + 2 * dailyUsers[1][u],
                          days_played |-> last.ledger0[u].days_played + 2]
                    ELSE [score |-> 2 * dailyUsers[1][u], days_played |-> 2]
        /\ \A u \in (DOMAIN last.ledger0) \ (DOMAIN dailyUsers[1]) :
              u # Excluded =>
                 /\ u \in DOMAIN ledger
                 /\ ledger[u] =
                       [score       |-> last.ledger0[u].score + 14,
                        days_played |-> last.ledger0[u].days_played]
        /\ ledger # ledger0[1]

C7_Witness ==
    /\ Replayed
    /\ UserA \in DOMAIN dailyUsers[1]
    /\ UserA \notin DOMAIN last.ledger0
    /\ UserB \in DOMAIN last.ledger0
    /\ UserB \notin DOMAIN dailyUsers[1]
    /\ ledger[UserA] = [score |-> 2, days_played |-> 2]
    /\ ledger[UserB] = [score |-> 19, days_played |-> 2]

C9_WriteFailureIsolated ==
    (/\ RunEnded(1)
     /\ ~errs[1].query
     /\ errs[1].scan = {}
     /\ errs[1].fetch = {}) =>
        /\ \A u \in errs[1].write :
              IF u \in DOMAIN ledger0[1]
              THEN u \in DOMAIN ledger /\ ledger[u] = ledger0[1][u]
              ELSE u \notin DOMAIN ledger
        /\ \A u \in ((DOMAIN ledger0[1]) \cup (DOMAIN dailyUsers[1]))
                       \ errs[1].write :
              /\ u \in DOMAIN ledger
              /\ ledger[u] = RowAfterRun(ledger0[1], dailyUsers[1], u)

\* the statement of one player failed, before the statements of a player of
\* the daily results and of an absent player, which took effect
C9_Witness ==
    /\ RunEnded(1)
    /\ errs[1].write = {UserA}
    /\ UserA \in DOMAIN dailyUsers[1]
    /\ UserA \in DOMAIN ledger0[1]
    /\ ledger[UserA] = ledger0[1][UserA]
    /\ \E u \in DOMAIN ledger0[1] :
          /\ u \notin DOMAIN dailyUsers[1]
          /\ ledger[u].score = ledger0[1][u].score + 7

\* the lines of the message the call is about to parse or has just parsed
LinesOf(p) == Split(msg[p].content, "\n")

\* the usernames of a line, normalised
UsersOn(line) ==
    {cleanUsername(FindMentions(line)[k]) : k \in 1..Len(FindMentions(line))}

\* the lines that have a score token and mention user
ScoredLines(lines, user) ==
    {i \in 1..Len(lines) :
        FindScore(lines[i]) # <<>> /\ user \in UsersOn(lines[i])}

LastOf(S) == CHOOSE i \in S : \A j \in S : j <= i

\* C10: a player mentioned on several lines that carry a score token has,
\* in the daily results, the score of the last of these lines
C10_LastLineWins ==
    pc[1] = "readKnown" =>
        \A i \in 1..Len(LinesOf(1)) :
            \A u \in UsersOn(LinesOf(1)[i]) :
                LET on == ScoredLines(LinesOf(1), u)
                IN  Cardinality(on) >= 2 =>
                       /\ u \in DOMAIN dailyUsers[1]
                       /\ dailyUsers[1][u] =
                             ScoreOf(FindScore(LinesOf(1)[LastOf(on)]))

\* "1/6 @a" and then "3/6 @a": a has 3
C10_Witness ==
    /\ pc[1] = "readKnown"
    /\ LinesOf(1) = <<ResultsHeader,
                      <<"1", "/", "6", " ", "@", "a">>,
                      <<"3", "/", "6", " ", "@", "a">>>>
    /\ dailyUsers[1] = [u \in {UserA} |-> 3]

\* C11: every score of the daily results is one of 1..6 or 7
C11_ScoreRange ==
    pc[1] = "readKnown" =>
        \A u \in DOMAIN dailyUsers[1] : dailyUsers[1][u] \in 1..7

\* the lines without the i-th
Without(lines, i) ==
    SubSeq(lines, 1, i - 1) \o SubSeq(lines, i + 1, Len(lines))

\* the line has a score token and at least one mention token
HasBoth(line) == FindScore(line) # <<>> /\ FindMentions(line) # <<>>

\* C12: a line with a score token and a mention token puts every username
\* it mentions into the daily results; a line that lacks either puts none:
\* the daily results are those of the message without that line, and their
\* keys are the usernames of the lines that have both
C12_ParseMiss ==
    pc[1] = "readKnown" =>
        LET lines == LinesOf(1)
        IN  /\ \A i \in 1..Len(lines) :
                  IF HasBoth(lines[i])
                  THEN /\ UsersOn(lines[i]) # {}
                       /\ UsersOn(lines[i]) \subseteq DOMAIN dailyUsers[1]
                  ELSE dailyUsers[1] = ParseLines(EmptyMap, Without(lines, i))
            /\ DOMAIN dailyUsers[1] =
                  UNION {UsersOn(lines[i]) :
                            i \in {k \in 1..Len(lines) : HasBoth(lines[k])}}

\* "@b 2/6" and then "@a": b has 2 and a has no score
C12_Witness ==
    /\ pc[1] = "readKnown"
    /\ LinesOf(1) = <<ResultsHeader,
                      <<"@", "b", " ", "2", "/", "6">>,
                      <<"@", "a">>>>
    /\ dailyUsers[1] = [u \in {UserB} |-> 2]

\* the leaderboard text that a "!leaderboard" request was answered with, no
\* statement having failed
Rendered ==
    /\ pc[1] = "done"
    /\ faults = 0
    /\ sent[1] # <<>>
    /\ sent[1][1].kind = "leaderboard"

\* the rank that a line of the text shows
RankShown(medal) ==
    CASE medal = <<"gold">> -> 1 [] medal = <<"silver">> -> 2
      [] medal = <<"bronze">> -> 3 [] OTHER -> medal[1]

\* C13: the lines of the leaderboard are in ascending order of
\* score / days_played compared as fractions, lines of equal average in
\* descending order of days_played, lines equal in both in ascending order
\* of username; the rank a line shows is its position, from 1
C13_RankingOrder ==
    Rendered =>
        LET rows == sent[1][1].rows
        IN  /\ \A i, j \in 1..Len(rows) :
                  i < j =>
                     LET u == rows[i].username
                         v == rows[j].username
                         su == ledger[u].score
                         du == ledger[u].days_played
                         sv == ledger[v].score
                         dv == ledger[v].days_played
                     IN  \/ su * dv < sv * du
                         \/ su * dv = sv * du /\ du > dv
                         \/ su * dv = sv * du /\ du = dv /\ StrLess(u, v)
            /\ \A i \in 1..Len(rows) : RankShown(rows[i].medal) = i

\* a and ab have 4 points in 2 days, b 2 in 1 day, the fourth 5 in 2 days
C13_Witness ==
    /\ Rendered
    /\ Len(sent[1][1].rows) = 4
    /\ [i \in 1..4 |-> sent[1][1].rows[i].username]
          = <<UserA, UserAB, UserB, Excluded>>
    /\ ledger[UserA] = [score |-> 4, days_played |-> 2]
    /\ ledger[UserB] = [score |-> 2, days_played |-> 1]
    /\ sent[1][1].rows[4].medal = <<4, ".">>

\* C14: no row with days_played = 0 is on the leaderboard, and every row
\* with days_played > 0 is on it exactly once
C14_RankingExclusion ==
    Rendered =>
        LET rows == sent[1][1].rows
        IN  /\ \A i \in 1..Len(rows) :
                  /\ rows[i].username \in DOMAIN ledger
                  /\ ledger[rows[i].username].days_played # 0
            /\ \A u \in DOMAIN ledger :
                  ledger[u].days_played > 0 =>
                     Cardinality({i \in 1..Len(rows) :
                                     rows[i].username = u}) = 1

\* a row with no day played is left out, two rows with days played are shown
C14_Witness ==
    /\ Rendered
    /\ UserA \in DOMAIN ledger
    /\ ledger[UserA].days_played = 0
    /\ UserB \in DOMAIN ledger
    /\ Excluded \in DOMAIN ledger
    /\ Len(sent[1][1].rows) = 2
    /\ {sent[1][1].rows[i].username : i \in 1..2} = {UserB, Excluded}

\* C15: a run issues at most one INSERT or UPDATE for a username, and for a
\* username that was in the table and is in the daily results none from the
\* loop of the absence penalty
C15_OneWritePerPlayer ==
    InRun(1) =>
        /\ \A u \in DOMAIN writes[1] :
              writes[1][u].scored + writes[1][u].penalised <= 1
        /\ \A u \in (DOMAIN ledger0[1]) \cap (DOMAIN dailyUsers[1]) :
              u \in DOMAIN writes[1] => writes[1][u].penalised = 0

\* a known player of the daily results has its one statement, a known player
\* absent from them has its one penalty
C15_Witness ==
    /\ RunEnded(1)
    /\ UserA \in (DOMAIN ledger0[1]) \cap (DOMAIN dailyUsers[1])
    /\ UserB \in (DOMAIN ledger0[1]) \ (DOMAIN dailyUsers[1])
    /\ UserA \in DOMAIN writes[1]
    /\ UserB \in DOMAIN writes[1]
    /\ writes[1][UserA] = [scored |-> 1, penalised |-> 0]
    /\ writes[1][UserB] = [scored |-> 0, penalised |-> 1]

\* C16: a call that processes results returns only after its two replies,
\* whatever failed in the run: it returns from the step of the leaderboard,
\* the acknowledgment having been sent, and the leaderboard text follows
\* unless sendLeaderboard's own query or Scan fails
C16_ReplyDespiteFailure ==
    [][(pc[1] \notin {"idle", "command", "done"} /\ pc'[1] = "done") =>
          /\ pc[1] = "board"
          /\ sent[1] = <<AckText>>
          /\ faults' = faults =>
                sent'[1] = <<AckText, LeaderboardText(ledger, {})>>]_vars

\* the SELECT of a player failed, and the acknowledgment was sent
C16_Witness ==
    /\ pc[1] = "board"
    /\ errs[1].fetch = {UserA}
    /\ UserB \in DOMAIN writes[1]
    /\ sent[1] = <<AckText>>

\* C17: once the run has ended no statement of the call changes the table;
\* then the acknowledgment is sent, the first text of the call, and after it
\* the leaderboard, which is the text of the table as the batch left it
C17_ReplyOrdering ==
    [][/\ RunEnded(1) => ledger' = ledger
       /\ pc[1] = "ack" => (sent[1] = <<>> /\ sent'[1] = <<AckText>>)
       /\ (pc[1] = "board" /\ faults' = faults) =>
             /\ sent'[1] = <<AckText, LeaderboardText(ledger, {})>>
             /\ Clean(1) =>
                   sent'[1][2] =
                      LeaderboardText(RunAlone(ledger0[1], dailyUsers[1]),
                                      {})]_vars

\* after "1/6 @a" on a table where a had 5 points in 2 days: the
\* acknowledgment, then the leaderboard with a at 2.00
C17_Witness ==
    /\ pc[1] = "done"
    /\ faults = 0
    /\ Len(sent[1]) = 2
    /\ sent[1][1] = AckText
    /\ sent[1][2].kind = "leaderboard"
    /\ ledger = [u \in {UserA} |-> [score |-> 6, days_played |-> 3]]
    /\ sent[1][2].rows =
          <<[medal |-> <<"gold">>, username |-> UserA, average |-> 200]>>

\* C18: in a table that started empty every row has at least one day played;
\* no INSERT is made for the absence penalty, and none with days_played 0
C18_DaysAtLeastOne ==
    /\ \A u \in DOMAIN ledger : ledger[u].days_played >= 1
    /\ (pc[1] = "write" /\ cur[1].norows) =>
          (cur[1].ret = "daily" /\ cur[1].incrementDays)

\* in the second run, in which a statement failed, a player of the first run
\* got the absence penalty by an UPDATE
C18_Witness ==
    /\ RunEnded(1)
    /\ ~Clean(1)
    /\ UserB \in DOMAIN ledger0[1]
    /\ UserB \in DOMAIN writes[1]
    /\ writes[1][UserB].penalised = 1
    /\ ledger[UserB] = [score |-> 14, days_played |-> 1]

\* the runs of hist whose daily results hold user
RunsWith(hist, user) == {i \in 1..Len(hist) : user \in DOMAIN hist[i]}

\* the runs of hist after the first with user whose daily results lack user
RunsMissed(hist, user) ==
    {i \in 1..Len(hist) :
        /\ user \notin DOMAIN hist[i]
        /\ \E j \in 1..(i - 1) : user \in DOMAIN hist[j]}

\* the sum of the daily scores of user in hist
RECURSIVE SumScores(_, _)
SumScores(hist, user) ==
    IF hist = <<>> THEN 0
    ELSE (IF user \in DOMAIN Head(hist) THEN Head(hist)[user] ELSE 0)
            + SumScores(Tail(hist), user)

\* C19: between runs, in a table that started empty and with no statement
\* failed, the rows are those of the players of the daily results so far;
\* the days played of a player are the runs whose daily results held it, and
\* its score is the sum of its daily scores plus 7 for every run after its
\* first whose daily results did not hold it
C19_Accounting ==
    pc[1] = "idle" =>
        /\ DOMAIN ledger = UNION {DOMAIN last.all[i] : i \in 1..Len(last.all)}
        /\ \A u \in (DOMAIN ledger) \ {Excluded} :
              /\ ledger[u].days_played = Cardinality(RunsWith(last.all, u))
              /\ ledger[u].score =
                    SumScores(last.all, u)
                       + 7 * Cardinality(RunsMissed(last.all, u))

\* b failed on the first day and was absent on the second, when a scored 1
C19_Witness ==
    /\ pc[1] = "idle"
    /\ Len(last.all) = 2
    /\ last.all[1] = [u \in {UserB} |-> 7]
    /\ last.all[2] = [u \in {UserA} |-> 1]
    /\ ledger[UserA] = [score |-> 1, days_played |-> 1]
    /\ ledger[UserB] = [score |-> 14, days_played |-> 1]

\* C20: a call enters the processing of results only from the gate, with a
\* message that is not the bot's own, whose author is Wordle#2092 and whose
\* content contains "results" in any case; only the INSERT or UPDATE of such
\* a call changes the table: a "!leaderboard" request and the rendering of
\* the leaderboard leave it as it is
C20_Frame ==
    [][/\ (pc'[1] # pc[1] /\ pc[1] \in {"idle", "command"}) =>
             /\ pc'[1] \in {"command", "parse", "done"}
             /\ pc'[1] = "parse" =>
                   /\ msg'[1].author.id # BotID
                   /\ msg'[1].author.username = "Wordle"
                   /\ msg'[1].author.discriminator = "2092"
                   /\ Contains(ToLower(msg'[1].content),
                               <<"r", "e", "s", "u", "l", "t", "s">>)
       /\ ledger' # ledger =>
             /\ pc[1] = "write"
             /\ msg[1].author = Wordle]_vars

\* a results message of Wordle#2092 has changed the table
C20_Witness ==
    /\ RunEnded(1)
    /\ msg[1].author = Wordle
    /\ UserA \in DOMAIN ledger0[1]
    /\ ledger[UserA] # ledger0[1][UserA]

=============================================================================
